---- MODULE Spec2Model ----
(***************************************************************************)
(* Model of psford/bsky-feed-filter: the SQLite feed store (db.py), the    *)
(* self-repost filter (filter.py), the Jetstream event router and the      *)
(* feed skeleton endpoint (server.py).                                     *)
(*                                                                         *)
(* Text is modelled as a sequence of tokens.  Timestamps and pagination    *)
(* cursors are sequences of single characters, so that formatting,         *)
(* splitting and parsing are computed as the code computes them.  AT URIs  *)
(* are sequences of coarser tokens ("at://", "did:", "/", names).          *)
(* Time is counted in hours.                                               *)
(***************************************************************************)
EXTENDS Integers, Sequences, FiniteSets, TLC

VARIABLES
    posts,        \* table posts: set of rows [uri, author_did, created_at]
    feed_items,   \* table feed_items: set of rows
    seq,          \* sqlite_sequence of feed_items: the largest id ever assigned
    now,          \* the wall clock, in hours
    event,        \* the event process_jetstream_event handled last
    request,      \* the query of the feed skeleton request handled last
    response,     \* the response to it
    walk,         \* the pagination walk of the client: the pages it has got so far
    cleanup,      \* periodic_db_cleanup: the cutoff and count of its last sweep, its rounds
    follows,      \* table follows, as committed: the set of followed dids
    service_state,\* table service_state: the value of each key, or NULL
    refresh,      \* the call of refresh_follow_list in progress, or the last one
    read,         \* what the last SELECT on follows from another connection returned
    proc,         \* run(): how far the startup has got
    consumer,     \* consume_jetstream: its position and local variables
    ws,           \* consume_jetstream.ws: no connection yet, an open one, a closed one
    remote,       \* the subscription as the remote end holds it
    stream        \* the messages of the stream: delivered, routed, persisted

storeVars == <<posts, feed_items, seq>>
httpVars == <<request, response, walk>>
\* the state of the background tasks
followVars == <<follows, service_state, refresh, read>>
streamVars == <<proc, consumer, ws, remote, stream>>
bgVars == <<cleanup, followVars, streamVars>>
vars == <<posts, feed_items, seq, now, event, request, response, walk, cleanup,
          follows, service_state, refresh, read, proc, consumer, ws, remote, stream>>

----------------------------------------------------------------------------
(* Bounds *)

\* feed_items rows ever inserted (caps the AUTOINCREMENT counter)
MaxSeq == 2
\* the same, where the feed is paginated
MaxFeedSeq == 2
\* the page sizes a client asks for are 1..MaxLimit, or the default
MaxLimit == 1
\* requests of one pagination walk
MaxPages == 3
\* feed_items rows ever inserted, where the retention sweep runs
MaxSweepSeq == 2
\* pages of one follow-list fetch
MaxFollowPages == 2
\* calls of refresh_follow_list
MaxRefreshes == 2
\* waits of the consumer since its last successful connection that are recorded
MaxWaits == 8
\* messages of the stream
MaxMessages == 2
\* feed_items rows ever inserted, where the stream is consumed
MaxStreamSeq == 2
\* feed_items rows ever inserted, where rows are inserted during a walk
MaxWalkSeq == 3
\* feed_items rows ever inserted, where the periodic jobs run
MaxJobsSeq == 1
\* feed_items rows ever inserted, where walks are followed to their end
MaxTerminationSeq == 2
\* feed_items rows ever inserted, where rows are followed from insertion to deletion
MaxLifetimeSeq == 2
\* feed_items rows ever inserted, where requests of any limit and requester are
\* served
MaxRequestSeq == 2

----------------------------------------------------------------------------
(* Text *)

\* SQL NULL / Python None: a token sequence no formatting produces
NULL == <<"NULL">>
\* a key that is missing from the event's dict
Absent == <<"absent">>

Digit == <<"0", "1", "2", "3", "4", "5", "6", "7", "8", "9">>
IsDigit(c) == \E d \in 1..10 : Digit[d] = c
DigitVal(c) == (CHOOSE d \in 1..10 : Digit[d] = c) - 1

\* byte value of a character (SQLite compares TEXT with memcmp)
CharCode(c) ==
    CASE IsDigit(c) -> 48 + DigitVal(c)
      [] c = "+" -> 43
      [] c = ":" -> 58
      [] c = "Z" -> 90
      [] c = "x" -> 120

RECURSIVE TextLess(_, _)
TextLess(s, t) ==
    IF t = <<>> THEN FALSE
    ELSE IF s = <<>> THEN TRUE
    ELSE IF Head(s) = Head(t) THEN TextLess(Tail(s), Tail(t))
    ELSE CharCode(Head(s)) < CharCode(Head(t))

StartsWith(s, p) == Len(s) >= Len(p) /\ SubSeq(s, 1, Len(p)) = p
EndsWith(s, p) == Len(s) >= Len(p) /\ SubSeq(s, Len(s) - Len(p) + 1, Len(s)) = p

\* str(n) for n >= 0
RECURSIVE IntToText(_)
IntToText(n) ==
    IF n < 10 THEN <<Digit[n + 1]>>
    ELSE IntToText(n \div 10) \o <<Digit[(n % 10) + 1]>>

\* datetime.isoformat(): fixed-width fields, here the two digits of the hour count
IsoFormat(h) == <<Digit[(h \div 10) + 1], Digit[(h % 10) + 1]>>

\* datetime.fromisoformat() raises ValueError unless the text has the fixed-width
\* form, with or without a UTC offset ("+" and two digits, hours east of UTC); the
\* value is the hour count in UTC
IsIsoFormat(s) ==
    \/ Len(s) = 2 /\ IsDigit(s[1]) /\ IsDigit(s[2])
    \/ Len(s) = 5 /\ IsDigit(s[1]) /\ IsDigit(s[2]) /\ s[3] = "+"
                  /\ IsDigit(s[4]) /\ IsDigit(s[5])
FromIsoFormat(s) ==
    IF Len(s) = 2 THEN 10 * DigitVal(s[1]) + DigitVal(s[2])
    ELSE (10 * DigitVal(s[1]) + DigitVal(s[2])) - (10 * DigitVal(s[4]) + DigitVal(s[5]))

\* strftime("%Y-%m-%dT%H:%M:%S"): the fixed-width fields, no offset
StrfTime(h) == <<Digit[(h \div 10) + 1], Digit[(h % 10) + 1]>>

\* str.split("::")
RECURSIVE SplitCursor(_)
SplitCursor(s) ==
    LET seps == {i \in 1..(Len(s) - 1) : s[i] = ":" /\ s[i + 1] = ":"}
    IN IF seps = {} THEN <<s>>
       ELSE LET i == CHOOSE i \in seps : \A j \in seps : i <= j
            IN <<SubSeq(s, 1, i - 1)>> \o SplitCursor(SubSeq(s, i + 2, Len(s)))

\* int(s) raises ValueError unless s is a decimal numeral
IsInt(s) == s # <<>> /\ \A i \in 1..Len(s) : IsDigit(s[i])
RECURSIVE IntOf(_)
IntOf(s) ==
    IF Len(s) = 1 THEN DigitVal(s[1])
    ELSE 10 * IntOf(SubSeq(s, 1, Len(s) - 1)) + DigitVal(s[Len(s)])

\* f"{sort_time}::{id}"
FormatCursor(sort_time, id) == sort_time \o <<":", ":">> \o IntToText(id)

Min(a, b) == IF a < b THEN a ELSE b

----------------------------------------------------------------------------
(* Accounts, record keys and URIs *)

A == <<"did:", "a">>
B == <<"did:", "b">>
DIDs == {A, B}

POST == "app.bsky.feed.post"
REPOST == "app.bsky.feed.repost"

\* f"at://{did}/app.bsky.feed.post/{rkey}"
PostUri(did, rkey) == <<"at://">> \o did \o <<"/", POST, "/">> \o rkey
\* f"at://{did}/app.bsky.feed.repost/{rkey}"
RepostUri(did, rkey) == <<"at://">> \o did \o <<"/", REPOST, "/">> \o rkey

----------------------------------------------------------------------------
(* Program constants *)

\* config.SELF_REPOST_MAX_AGE_HOURS (default)
SELF_REPOST_MAX_AGE_HOURS == 24
\* config.FEED_PAGE_SIZE
FEED_PAGE_SIZE == 50
\* config.DB_RETENTION_HOURS (default)
DB_RETENTION_HOURS == 48

----------------------------------------------------------------------------
(* db.py: posts *)

NoRow == [uri |-> NULL, author_did |-> NULL, created_at |-> NULL]

\* mutant of InsertPost: INSERT OR REPLACE
InsertPostOrReplace(P, uri, author_did, created_at) ==
    {r \in P : r.uri # uri}
        \cup {[uri |-> uri, author_did |-> author_did, created_at |-> created_at]}

\* INSERT OR IGNORE INTO posts: uri is the PRIMARY KEY
InsertPost(P, uri, author_did, created_at) ==
    IF \E r \in P : r.uri = uri
    THEN P
    ELSE P \cup {[uri |-> uri, author_did |-> author_did, created_at |-> created_at]}

\* SELECT * FROM posts WHERE uri = ? ; fetchone()
GetPost(P, uri) ==
    IF \E r \in P : r.uri = uri
    THEN CHOOSE r \in P : r.uri = uri
    ELSE NoRow

\* DELETE FROM posts WHERE uri = ?
DeletePost(P, uri) == {r \in P : r.uri # uri}

----------------------------------------------------------------------------
(* db.py: feed items *)

\* INSERT INTO feed_items (...) VALUES (...): id is the AUTOINCREMENT key
InsertFeedItem(F, id, post_uri, sort_time, repost_uri, reposter_did, is_filtered) ==
    F \cup {[id |-> id, post_uri |-> post_uri, repost_uri |-> repost_uri,
             reposter_did |-> reposter_did, sort_time |-> sort_time,
             is_filtered |-> is_filtered]}

\* mutant of DeleteFeedItemsByPost: removes the direct appearance only
DeleteDirectFeedItemsByPost(F, post_uri) ==
    {r \in F : ~(r.post_uri = post_uri /\ r.repost_uri = NULL)}

\* a delete that keeps the rows and hides them: UPDATE ... SET is_filtered = 1
HideFeedItemsByPost(F, post_uri) ==
    {IF r.post_uri = post_uri THEN [r EXCEPT !.is_filtered = TRUE] ELSE r : r \in F}

\* DELETE FROM feed_items WHERE post_uri = ?
DeleteFeedItemsByPost(F, post_uri) == {r \in F : r.post_uri # post_uri}

\* DELETE FROM feed_items WHERE repost_uri = ?  (NULL = ? is never true)
\* a delete that does not compare the repost uri: every repost row goes
DeleteEveryRepostFeedItem(F, repost_uri) ==
    {r \in F : r.repost_uri = NULL}

DeleteFeedItemsByRepost(F, repost_uri) ==
    {r \in F : r.repost_uri = NULL \/ r.repost_uri # repost_uri}

\* ORDER BY sort_time DESC, id DESC: r comes before q
OrderedBefore(r, q) ==
    \/ TextLess(q.sort_time, r.sort_time)
    \/ (q.sort_time = r.sort_time /\ q.id < r.id)

RECURSIVE OrderBySortTimeIdDesc(_)
OrderBySortTimeIdDesc(S) ==
    IF S = {} THEN <<>>
    ELSE LET first == CHOOSE r \in S : \A q \in S \ {r} : OrderedBefore(r, q)
         IN <<first>> \o OrderBySortTimeIdDesc(S \ {first})

\* LIMIT n: a negative n is no limit
Limit(rows, n) == IF n < 0 \/ n >= Len(rows) THEN rows ELSE SubSeq(rows, 1, n)

\* the rows the SELECT of get_feed_skeleton returns, or the ValueError of int()
SkeletonRows(F, limit, cursor) ==
    IF cursor # NULL /\ cursor # <<>>
    THEN LET parts == SplitCursor(cursor)
         IN IF Len(parts) = 2
            THEN IF ~IsInt(parts[2])
                 THEN [raised |-> TRUE, rows |-> <<>>]
                 ELSE LET cursor_time == parts[1]
                          cursor_id == IntOf(parts[2])
                          older == {r \in F :
                                      /\ ~r.is_filtered
                                      /\ \/ TextLess(r.sort_time, cursor_time)
                                         \/ (r.sort_time = cursor_time /\ r.id < cursor_id)}
                      IN [raised |-> FALSE,
                          rows |-> Limit(OrderBySortTimeIdDesc(older), limit)]
            ELSE [raised |-> FALSE, rows |-> <<>>]
    ELSE [raised |-> FALSE,
          rows |-> Limit(OrderBySortTimeIdDesc({r \in F : ~r.is_filtered}), limit)]

\* the item of a row: {"post": ...} and, for a repost, "reason": {"repost": ...}
SkeletonItem(row) ==
    [post |-> row.post_uri,
     repost |-> IF row.repost_uri # NULL /\ row.repost_uri # <<>> THEN row.repost_uri
                ELSE NULL]

GetFeedSkeleton(F, limit, cursor) ==
    LET got == SkeletonRows(F, limit, cursor)
    IN [raised |-> got.raised,
        items |-> [i \in 1..Len(got.rows) |-> SkeletonItem(got.rows[i])]]

\* cleanup_old_data: the tables after the two DELETEs, and the returned count
CleanupOldData(P, F, clock) ==
    LET cutoff == StrfTime(clock - DB_RETENTION_HOURS)
        old_items == {r \in F : TextLess(r.sort_time, cutoff)}
        old_posts == {p \in P : TextLess(p.created_at, cutoff)}
    IN [posts |-> P \ old_posts, feed_items |-> F \ old_items, cutoff |-> cutoff,
        deleted |-> Cardinality(old_items) + Cardinality(old_posts)]

\* replace_follows runs DELETE and the INSERTs in one transaction of its connection:
\* tx is the table as that connection sees it, and COMMIT makes it the table.
\* the INSERT of a did that tx holds already fails (did is the PRIMARY KEY)
InsertFollowFails(tx, did) == did \in tx
InsertFollow(tx, did) == tx \cup {did}

\* a SELECT that reads the uncommitted rows of another connection
GetFollowedDidsDirty(committed, uncommitted, open) ==
    IF open THEN uncommitted ELSE committed

\* get_followed_dids on its own connection: the committed rows
GetFollowedDids(committed, uncommitted, open) == committed

\* set_state: INSERT OR REPLACE
SetState(S, key, value) == [S EXCEPT ![key] = value]
GetState(S, key) == S[key]
NoState == [jetstream_cursor |-> NULL, my_did |-> NULL, last_follow_refresh |-> NULL]

----------------------------------------------------------------------------
(* filter.py *)

\* index of the first "/" token of s, 0 when there is none
FirstSlash(s) ==
    IF \E i \in 1..Len(s) : s[i] = "/"
    THEN CHOOSE i \in 1..Len(s) : s[i] = "/" /\ \A j \in 1..(i - 1) : s[j] # "/"
    ELSE 0

ParseDidFromUri(at_uri) ==
    IF ~StartsWith(at_uri, <<"at://">>) THEN NULL
    ELSE LET path == SubSeq(at_uri, 2, Len(at_uri))
             did == IF FirstSlash(path) = 0 THEN path
                    ELSE SubSeq(path, 1, FirstSlash(path) - 1)
         IN IF StartsWith(did, <<"did:">>) THEN did ELSE NULL

\* mutant of ShouldFilterRepost: age <= max_age
ShouldFilterRepostInclusive(reposter_did, subject_uri) ==
    LET original_author == ParseDidFromUri(subject_uri) IN
    IF original_author = NULL THEN FALSE
    ELSE IF reposter_did # original_author THEN FALSE
    ELSE LET post == GetPost(posts, subject_uri) IN
         IF post = NoRow THEN FALSE
         ELSE LET created_str ==
                      IF EndsWith(post.created_at, <<"Z">>)
                      THEN SubSeq(post.created_at, 1, Len(post.created_at) - 1)
                      ELSE post.created_at
              IN IF ~IsIsoFormat(created_str) THEN FALSE
                 ELSE now - FromIsoFormat(created_str) <= SELF_REPOST_MAX_AGE_HOURS

\* mutant of ShouldFilterRepost: the reposter is not compared with the author
ShouldFilterRepostAnyReposter(reposter_did, subject_uri) ==
    LET original_author == ParseDidFromUri(subject_uri) IN
    IF original_author = NULL THEN FALSE
    ELSE LET post == GetPost(posts, subject_uri) IN
         IF post = NoRow THEN FALSE
         ELSE LET created_str ==
                      IF EndsWith(post.created_at, <<"Z">>)
                      THEN SubSeq(post.created_at, 1, Len(post.created_at) - 1)
                      ELSE post.created_at
              IN IF ~IsIsoFormat(created_str) THEN FALSE
                 ELSE now - FromIsoFormat(created_str) < SELF_REPOST_MAX_AGE_HOURS

ShouldFilterRepost(reposter_did, subject_uri) ==
    LET original_author == ParseDidFromUri(subject_uri) IN
    IF original_author = NULL THEN FALSE
    ELSE IF reposter_did # original_author THEN FALSE
    ELSE LET post == GetPost(posts, subject_uri) IN
         IF post = NoRow THEN FALSE
         ELSE LET created_str ==
                      IF EndsWith(post.created_at, <<"Z">>)
                      THEN SubSeq(post.created_at, 1, Len(post.created_at) - 1)
                      ELSE post.created_at
              IN IF ~IsIsoFormat(created_str) THEN FALSE
                 ELSE now - FromIsoFormat(created_str) < SELF_REPOST_MAX_AGE_HOURS

----------------------------------------------------------------------------
(* server.py: the event router *)

\* record.get("createdAt", datetime.now(timezone.utc).isoformat())
CreatedAtOf(createdAt) == IF createdAt = Absent THEN IsoFormat(now) ELSE createdAt

HandlePostCreate(did, rkey, createdAt) ==
    LET created_at == CreatedAtOf(createdAt)
        post_uri == PostUri(did, rkey)
    IN /\ posts' = InsertPost(posts, post_uri, did, created_at)
       /\ feed_items' = InsertFeedItem(feed_items, seq + 1, post_uri, created_at,
                                       NULL, NULL, FALSE)
       /\ seq' = seq + 1

HandlePostDelete(did, rkey) ==
    LET post_uri == PostUri(did, rkey)
    IN /\ posts' = DeletePost(posts, post_uri)
       /\ feed_items' = DeleteFeedItemsByPost(feed_items, post_uri)
       /\ UNCHANGED seq

\* mutant of HandleRepostCreate: is_filtered is not passed on (it defaults to False)
HandleRepostCreateUnfiltered(did, rkey, subject_uri, createdAt) ==
    LET created_at == CreatedAtOf(createdAt)
        repost_uri == RepostUri(did, rkey)
    IN IF subject_uri = <<>>
       THEN UNCHANGED storeVars
       ELSE /\ feed_items' = InsertFeedItem(feed_items, seq + 1, subject_uri, created_at,
                                            repost_uri, did, FALSE)
            /\ seq' = seq + 1
            /\ UNCHANGED posts

HandleRepostCreate(did, rkey, subject_uri, createdAt) ==
    LET created_at == CreatedAtOf(createdAt)
        repost_uri == RepostUri(did, rkey)
    IN IF subject_uri = <<>>
       THEN UNCHANGED storeVars
       ELSE /\ feed_items' = InsertFeedItem(feed_items, seq + 1, subject_uri, created_at,
                                            repost_uri, did,
                                            ShouldFilterRepost(did, subject_uri))
            /\ seq' = seq + 1
            /\ UNCHANGED posts

HandleRepostDelete(did, rkey) ==
    LET repost_uri == RepostUri(did, rkey)
    IN /\ feed_items' = DeleteFeedItemsByRepost(feed_items, repost_uri)
       /\ UNCHANGED <<posts, seq>>

Event(kind, collection, operation, did, rkey, createdAt, subject) ==
    [kind |-> kind, collection |-> collection, operation |-> operation, did |-> did,
     rkey |-> rkey, createdAt |-> createdAt, subject |-> subject]

NoEvent == Event("none", "", "", <<>>, <<>>, Absent, <<>>)

ProcessJetstreamEvent(ev) ==
    /\ event' = ev
    /\ IF ev.kind # "commit" THEN UNCHANGED storeVars
       ELSE IF ev.collection = POST /\ ev.operation = "create"
            THEN HandlePostCreate(ev.did, ev.rkey, ev.createdAt)
       ELSE IF ev.collection = POST /\ ev.operation = "delete"
            THEN HandlePostDelete(ev.did, ev.rkey)
       ELSE IF ev.collection = REPOST /\ ev.operation = "create"
            THEN HandleRepostCreate(ev.did, ev.rkey, ev.subject, ev.createdAt)
       ELSE IF ev.collection = REPOST /\ ev.operation = "delete"
            THEN HandleRepostDelete(ev.did, ev.rkey)
       ELSE UNCHANGED storeVars

\* process_jetstream_event when the second store call of the handler raises: the
\* first one is committed (each call commits on its own connection).  The handlers
\* of reposts make one writing call, so nothing is committed when it raises.
ProcessJetstreamEventInterrupted(ev) ==
    /\ event' = ev
    /\ IF ev.kind = "commit" /\ ev.collection = POST /\ ev.operation = "create"
       THEN /\ posts' = InsertPost(posts, PostUri(ev.did, ev.rkey), ev.did,
                                   CreatedAtOf(ev.createdAt))
            /\ UNCHANGED <<feed_items, seq>>
       ELSE IF ev.kind = "commit" /\ ev.collection = POST /\ ev.operation = "delete"
       THEN /\ posts' = DeletePost(posts, PostUri(ev.did, ev.rkey))
            /\ UNCHANGED <<feed_items, seq>>
       ELSE UNCHANGED storeVars

----------------------------------------------------------------------------
(* server.py: the feed skeleton endpoint *)

\* the response to a request whose handler raised
InternalServerError == [status |-> 500, feed |-> <<>>, cursor |-> NULL]

\* the row the handler re-queries for the cursor: the one with the largest id among
\* those with the last item's repost uri, or its post uri and no repost uri
CursorRow(F, last) ==
    LET matching == IF last.repost # NULL
                    THEN {r \in F : r.repost_uri = last.repost}
                    ELSE {r \in F : r.post_uri = last.post /\ r.repost_uri = NULL}
    IN IF matching = {} THEN {}
       ELSE {CHOOSE r \in matching : \A q \in matching : q.id <= r.id}

\* the response of the handler when the table feed_items is F
SkeletonResponse(F, limit_param, cursor) ==
    LET limit == Min(limit_param, FEED_PAGE_SIZE)
        got == GetFeedSkeleton(F, limit, cursor)
    IN IF got.raised THEN InternalServerError
       ELSE IF got.items = <<>> THEN [status |-> 200, feed |-> <<>>, cursor |-> NULL]
       ELSE LET row == CursorRow(F, got.items[Len(got.items)])
            IN [status |-> 200, feed |-> got.items,
                cursor |-> IF row = {} THEN NULL
                           ELSE LET r == CHOOSE r \in row : TRUE
                                IN FormatCursor(r.sort_time, r.id)]

\* the handler for a request that names the feed and passes the access control
HandleGetFeedSkeleton(limit_param, cursor) ==
    SkeletonResponse(feed_items, limit_param, cursor)

\* the Authorization header of a request: none, or a scheme and what follows it; a
\* token is its parts and the "." between them
NoAuthorization == <<>>

\* json.loads(base64.urlsafe_b64decode(payload)) of the payloads that decode to a
\* JSON object, and data.get("iss") of it; of every other text, the exception
Base64JsonLoads(payload) ==
    CASE payload = "eyJpc3MiOiJkaWQ6YSJ9" -> [raised |-> FALSE, iss |-> A]
      [] payload = "eyJpc3MiOiJkaWQ6YiJ9" -> [raised |-> FALSE, iss |-> B]
      [] payload = "eyJpc3MiOiIifQ" -> [raised |-> FALSE, iss |-> <<>>]
      [] payload = "e30" -> [raised |-> FALSE, iss |-> NULL]
      [] OTHER -> [raised |-> TRUE, iss |-> NULL]

\* _extract_requester_did: the 'iss' of the token's second part, or None
ExtractRequesterDid(auth) ==
    IF ~StartsWith(auth, <<"Bearer ">>) THEN NULL
    ELSE LET token == Tail(auth)
             dots == {i \in 1..Len(token) : token[i] = "."}
         IN IF dots = {} THEN NULL
            ELSE LET first == CHOOSE i \in dots : \A j \in dots : i <= j
                     payload == IF first < Len(token) /\ token[first + 1] # "."
                                THEN token[first + 1] ELSE ""
                     data == Base64JsonLoads(payload)
                 IN IF data.raised THEN NULL ELSE data.iss

\* the handler for a request that names the feed, when config.ALLOWED_DIDS is
\* allowed_dids: a requester that is truthy and not allowed gets the empty feed
HandleFeedRequest(auth, allowed_dids, limit_param, cursor) ==
    LET requester == IF allowed_dids # {} THEN ExtractRequesterDid(auth) ELSE NULL
    IN IF /\ allowed_dids # {}
          /\ requester # NULL /\ requester # <<>>
          /\ requester \notin allowed_dids
       THEN [status |-> 200, feed |-> <<>>, cursor |-> NULL]
       ELSE HandleGetFeedSkeleton(limit_param, cursor)

NoRequest == [limit |-> 0, cursor |-> NULL, auth |-> NoAuthorization, allowed |-> {}]
NoResponse == [status |-> 0, feed |-> <<>>, cursor |-> NULL]
\* ended: the task is over; round: flips with every round of the loop; failed: a
\* round has raised; past: a round has run after one that raised
NoCleanup == [cutoff |-> <<>>, deleted |-> 0, ended |-> FALSE, round |-> 0,
              failed |-> FALSE, past |-> FALSE]
\* base: the store when the walk began; seen: feed_items when its last page was served
NoWalk == [active |-> FALSE, limit |-> 0, pages |-> 0, items |-> <<>>, cursor |-> NULL,
           base |-> <<{}, 0>>, seen |-> {}]

----------------------------------------------------------------------------
(* follows.py *)

\* the did the handle of the feed's owner resolves to
MyDid == <<"did:", "me">>

SetOf(list) == {list[i] : i \in 1..Len(list)}

\* calls: the calls so far, counted up to MaxRefreshes; before: how the call before
\* this one ended
NoRefresh ==
    [pc |-> "idle", calls |-> 0, old |-> {}, follows |-> <<>>, pages |-> 0,
     failed |-> "none", tx |-> {}, open |-> FALSE, next |-> 1,
     outcome |-> "none", returned |-> {}, before |-> "none"]
NoRead == [dids |-> {}, pc |-> "none", tx |-> {}]

\* refresh_follow_list is called: it awaits resolve_handle_to_did
RefreshBegin ==
    /\ refresh.pc = "idle"
    /\ refresh' = [NoRefresh EXCEPT !.pc = "resolve",
                                    !.calls = Min(refresh.calls + 1, MaxRefreshes),
                                    !.old = follows, !.before = refresh.outcome]
    /\ UNCHANGED <<follows, service_state, read>>

\* the call returns the stored list as fallback
ReturnStored(why) ==
    [refresh EXCEPT !.pc = "idle", !.failed = why, !.outcome = "returned",
                    !.returned = GetFollowedDids(follows, refresh.tx, refresh.open)]

\* an exception leaves the call (and rolls back the open transaction, if any)
Raise(why) ==
    [refresh EXCEPT !.pc = "idle", !.failed = why, !.outcome = "raised",
                    !.tx = {}, !.open = FALSE]

\* resolve_handle_to_did: status 200 with a did, another status (or no did), or a
\* transport error
ResolveHandleToDid(result) ==
    /\ refresh.pc = "resolve"
    /\ refresh' = CASE result = "ok" -> [refresh EXCEPT !.pc = "fetch"]
                    [] result = "status" -> ReturnStored("resolve")
                    [] result = "error" -> Raise("resolve")
    /\ UNCHANGED <<follows, service_state, read>>

\* one round of the loop of fetch_follows, and what follows the loop's end up to the
\* call of replace_follows
FetchFollows(result, page, more) ==
    /\ refresh.pc = "fetch"
    /\ LET got == IF result = "ok" THEN refresh.follows \o page ELSE refresh.follows
           fetched == [refresh EXCEPT !.follows = got, !.pages = refresh.pages + 1,
                                      !.failed = IF result = "status" THEN "page"
                                                 ELSE refresh.failed]
       IN refresh' =
            IF result = "error" THEN Raise("page")
            ELSE IF result = "ok" /\ more THEN fetched
            ELSE IF got = <<>>
                 THEN [fetched EXCEPT !.pc = "idle", !.outcome = "returned",
                          !.failed = IF result = "status" THEN "page" ELSE "empty",
                          !.returned = GetFollowedDids(follows, refresh.tx, refresh.open)]
            ELSE [fetched EXCEPT !.pc = "replace"]
    /\ UNCHANGED <<follows, service_state, read>>

\* replace_follows: DELETE FROM follows opens the transaction
ReplaceFollowsDelete ==
    /\ refresh.pc = "replace"
    /\ refresh' = [refresh EXCEPT !.pc = "insert", !.tx = {}, !.open = TRUE, !.next = 1]
    /\ UNCHANGED <<follows, service_state, read>>

\* replace_follows: executemany inserts the next row, or fails on it
ReplaceFollowsInsert ==
    /\ refresh.pc = "insert"
    /\ refresh.next <= Len(refresh.follows)
    /\ LET did == refresh.follows[refresh.next]
       IN refresh' = IF InsertFollowFails(refresh.tx, did) THEN Raise("replace")
                     ELSE [refresh EXCEPT !.tx = InsertFollow(refresh.tx, did),
                                          !.next = refresh.next + 1]
    /\ UNCHANGED <<follows, service_state, read>>

\* replace_follows commits; refresh_follow_list sets its two keys and returns the dids
ReplaceFollowsCommit ==
    /\ refresh.pc = "insert"
    /\ refresh.next > Len(refresh.follows)
    /\ follows' = refresh.tx
    /\ service_state' = SetState(SetState(service_state, "my_did", MyDid),
                                 "last_follow_refresh", IsoFormat(now))
    /\ refresh' = [refresh EXCEPT !.pc = "idle", !.tx = {}, !.open = FALSE,
                                  !.outcome = "returned",
                                  !.returned = SetOf(refresh.follows)]
    /\ UNCHANGED read

----------------------------------------------------------------------------
(* server.py: the stream consumer *)

\* max_backoff of consume_jetstream
MAX_BACKOFF == 60

\* consume_jetstream before run() has created its task
NoConsumer ==
    [pc |-> "idle", backoff |-> 1, followed_dids |-> {},
     params |-> [wantedDids |-> {}, cursor |-> NULL], waits |-> <<>>, attempt |-> 0]
NoRemote == [wantedDids |-> {}, cursor |-> NULL, updates |-> 0]
\* next: the time_us of the message the remote delivers next; handed: the time_us
\* of the messages taken off the connection (handed to the router, or skipped as
\* undecodable); routed: of those whose mutations are all committed; msg: of the
\* message being handled; last: how the handling of the last message ended
NoStream == [next |-> 1, handed |-> {}, routed |-> {}, msg |-> 0, last |-> "none"]

\* the request carries one wantedDids parameter per followed did: with none, it
\* asks for no filtering by account, and the remote delivers the events of all
Delivers(r, did) == r.wantedDids = {} \/ did \in r.wantedDids

\* build_jetstream_params: the two collections are fixed; the dids and the cursor
BuildJetstreamParams(followed_dids) ==
    [wantedDids |-> followed_dids, cursor |-> GetState(service_state, "jetstream_cursor")]

\* top of the loop, a connection attempt (attempt flips): the request is built from
\* followed_dids and awaits websockets.connect, or get_state fails, which is caught
TryConnect(c, followed_dids, store_ok) ==
    IF store_ok
    THEN [c EXCEPT !.pc = "connecting", !.attempt = 1 - c.attempt,
                   !.followed_dids = followed_dids,
                   !.params = BuildJetstreamParams(followed_dids)]
    ELSE [c EXCEPT !.pc = "sleep", !.attempt = 1 - c.attempt,
                   !.followed_dids = followed_dids]

\* the task starts with the list run() passed
ConsumerBuild(store_ok) ==
    /\ consumer.pc = "build"
    /\ consumer' = TryConnect(consumer, consumer.followed_dids, store_ok)
    /\ UNCHANGED <<ws, remote, stream>>

\* websockets.connect returns or raises; a remote given a cursor plays back from it
ConsumerConnect(connected) ==
    /\ consumer.pc = "connecting"
    /\ IF connected
       THEN /\ consumer' = [consumer EXCEPT !.pc = "connected", !.backoff = 1,
                                            !.waits = <<>>]
            /\ ws' = "open"
            /\ remote' = [wantedDids |-> consumer.params.wantedDids,
                          cursor |-> consumer.params.cursor, updates |-> 0]
            /\ stream' = IF consumer.params.cursor = NULL
                         THEN [stream EXCEPT !.last = "none"]
                         ELSE [stream EXCEPT !.next = IntOf(consumer.params.cursor),
                                             !.last = "none"]
       ELSE /\ consumer' = [consumer EXCEPT !.pc = "sleep"]
            /\ UNCHANGED <<ws, remote, stream>>

\* the connection is closed by the remote or breaks: the loop over ws ends
ConsumerDisconnect ==
    /\ consumer.pc = "connected"
    /\ consumer' = [consumer EXCEPT !.pc = "sleep"]
    /\ ws' = "closed"
    /\ UNCHANGED <<remote, stream>>

\* a message arrives.  json.loads raises ("undecodable"), or the message is handed
\* to process_jetstream_event, which returns ("handled"), raises on its first store
\* call ("raised") or raises on a later one ("interrupted"); every exception is
\* caught and logged, and the loop takes the next message
ConsumerRoute(ev, outcome) ==
    /\ consumer.pc = "connected"
    /\ CASE outcome = "handled" -> ProcessJetstreamEvent(ev)
         [] outcome = "interrupted" -> ProcessJetstreamEventInterrupted(ev)
         [] OTHER -> UNCHANGED <<storeVars, event>>
    /\ consumer' = [consumer EXCEPT !.pc = IF outcome = "handled" THEN "persist"
                                           ELSE "connected"]
    /\ stream' = [stream EXCEPT !.next = stream.next + 1, !.msg = stream.next,
                                !.handed = stream.handed \cup {stream.next},
                                !.routed = IF outcome = "handled"
                                           THEN stream.routed \cup {stream.next}
                                           ELSE stream.routed,
                                !.last = outcome]
    /\ UNCHANGED <<ws, remote>>

\* set_state("jetstream_cursor", str(time_us)) succeeds, or fails and is logged
ConsumerPersist(store_ok) ==
    /\ consumer.pc = "persist"
    /\ consumer' = [consumer EXCEPT !.pc = "connected"]
    /\ service_state' = IF store_ok
                        THEN SetState(service_state, "jetstream_cursor",
                                      IntToText(stream.msg))
                        ELSE service_state
    /\ UNCHANGED <<ws, remote, stream>>

\* a sleep whose doubling is capped at the next power of two
ConsumerSleepCappedAt64 ==
    /\ consumer.pc = "sleep"
    /\ consumer' = [consumer EXCEPT !.pc = "reload",
                                    !.waits = IF Len(consumer.waits) < MaxWaits
                                              THEN Append(consumer.waits, consumer.backoff)
                                              ELSE consumer.waits,
                                    !.backoff = Min(consumer.backoff * 2, 64)]
    /\ UNCHANGED <<ws, remote, stream>>

\* asyncio.sleep(backoff); backoff = min(backoff * 2, max_backoff)
ConsumerSleep ==
    /\ consumer.pc = "sleep"
    /\ consumer' = [consumer EXCEPT !.pc = "reload",
                                    !.waits = IF Len(consumer.waits) < MaxWaits
                                              THEN Append(consumer.waits, consumer.backoff)
                                              ELSE consumer.waits,
                                    !.backoff = Min(consumer.backoff * 2, MAX_BACKOFF)]
    /\ UNCHANGED <<ws, remote, stream>>

\* followed_dids = db.get_followed_dids(), outside the try: a failure ends the task;
\* otherwise the loop goes on to its next connection attempt without an await
ConsumerReload(store_ok, build_ok) ==
    /\ consumer.pc = "reload"
    /\ consumer' = IF store_ok
                   THEN TryConnect(consumer,
                                   GetFollowedDids(follows, refresh.tx, refresh.open),
                                   build_ok)
                   ELSE [consumer EXCEPT !.pc = "dead"]
    /\ UNCHANGED <<ws, remote, stream>>

----------------------------------------------------------------------------
(* server.py: the retention job *)

\* a loop whose round is not guarded: the exception of cleanup_old_data ends the task
PeriodicDbCleanupRoundUncaught(store_ok) ==
    /\ ~cleanup.ended
    /\ LET swept == CleanupOldData(posts, feed_items, now)
       IN IF store_ok
          THEN /\ posts' = swept.posts
               /\ feed_items' = swept.feed_items
               /\ cleanup' = [cleanup EXCEPT !.cutoff = swept.cutoff,
                                             !.deleted = swept.deleted,
                                             !.round = 1 - cleanup.round,
                                             !.past = cleanup.failed]
          ELSE /\ UNCHANGED <<posts, feed_items>>
               /\ cleanup' = [cleanup EXCEPT !.ended = TRUE, !.failed = TRUE]

\* one round of the loop of periodic_db_cleanup, after its sleep: cleanup_old_data
\* commits its two DELETEs and returns the count, or raises with nothing committed
\* (the connection is closed without a commit), which is logged
PeriodicDbCleanupRound(store_ok) ==
    /\ ~cleanup.ended
    /\ LET swept == CleanupOldData(posts, feed_items, now)
       IN IF store_ok
          THEN /\ posts' = swept.posts
               /\ feed_items' = swept.feed_items
               /\ cleanup' = [cleanup EXCEPT !.cutoff = swept.cutoff,
                                             !.deleted = swept.deleted,
                                             !.round = 1 - cleanup.round,
                                             !.past = cleanup.failed]
          ELSE /\ UNCHANGED <<posts, feed_items>>
               /\ cleanup' = [cleanup EXCEPT !.round = 1 - cleanup.round,
                                             !.failed = TRUE,
                                             !.past = cleanup.failed]

----------------------------------------------------------------------------
(* The environment: inbound events and the clock *)

\* record.createdAt: missing, a zulu timestamp of hour 0, or text that is no timestamp
ZuluHour0 == <<"0", "0", "Z">>
NotATime == <<"x", "x">>

\* record.subject.uri: a uri without scheme, a uri without collection and record key
NoSchemeUri == A \o <<"/", POST, "/", "1">>
NoCollectionUri == <<"at://">> \o A

\* (did, rkey) of the post events: commit.get("rkey", "") may be empty
PostKeys == {<<A, <<"1">>>>, <<A, <<>>>>, <<B, <<"1">>>>}

\* (did, rkey, createdAt) of the post-create events
PostCreateInputs ==
    {<<A, <<"1">>, Absent>>, <<A, <<"1">>, ZuluHour0>>, <<A, <<"1">>, NotATime>>,
     <<A, <<>>, Absent>>, <<B, <<"1">>, Absent>>}

\* (did, rkey) of the repost events
RepostKeys == {<<A, <<"1">>>>, <<B, <<"1">>>>}

\* (subject uri, createdAt) of the repost-create events: a post uri (one with an
\* empty record key), a malformed uri, or no subject at all
RepostCreateInputs ==
    {<<PostUri(A, <<"1">>), Absent>>, <<PostUri(A, <<"1">>), ZuluHour0>>,
     <<PostUri(A, <<>>), Absent>>, <<NoSchemeUri, Absent>>, <<NoCollectionUri, Absent>>,
     <<<<>>, Absent>>}

\* the instants at which the system is observed, in hours
ClockValues == {0, 1, 24, 30}

PostCreate ==
    \E i \in PostCreateInputs :
        /\ seq < MaxSeq
        /\ ProcessJetstreamEvent(Event("commit", POST, "create", i[1], i[2], i[3], <<>>))
        /\ UNCHANGED <<now, httpVars, bgVars>>

PostDelete ==
    \E k \in PostKeys :
        /\ ProcessJetstreamEvent(Event("commit", POST, "delete", k[1], k[2], Absent, <<>>))
        /\ UNCHANGED <<now, httpVars, bgVars>>

RepostCreate ==
    \E k \in RepostKeys, i \in RepostCreateInputs :
        /\ seq < MaxSeq
        /\ ProcessJetstreamEvent(Event("commit", REPOST, "create", k[1], k[2], i[2], i[1]))
        /\ UNCHANGED <<now, httpVars, bgVars>>

RepostDelete ==
    \E k \in RepostKeys :
        /\ ProcessJetstreamEvent(Event("commit", REPOST, "delete", k[1], k[2], Absent, <<>>))
        /\ UNCHANGED <<now, httpVars, bgVars>>

\* events the router ignores: a non-commit kind, an operation it has no handler for
OtherEvent ==
    \E ev \in {Event("identity", "", "", A, <<>>, Absent, <<>>),
               Event("commit", POST, "update", A, <<"1">>, Absent, <<>>)} :
        /\ ProcessJetstreamEvent(ev)
        /\ UNCHANGED <<now, httpVars, bgVars>>

Tick ==
    /\ \E t \in ClockValues : t > now /\ now' = t
    /\ UNCHANGED <<storeVars, event, httpVars, bgVars>>

Init ==
    /\ posts = {}
    /\ feed_items = {}
    /\ seq = 0
    /\ now = 0
    /\ event = NoEvent
    /\ request = NoRequest
    /\ response = NoResponse
    /\ walk = NoWalk
    /\ cleanup = NoCleanup
    /\ follows = {}
    /\ service_state = NoState
    /\ refresh = NoRefresh
    /\ read = NoRead
    /\ proc = "init_db"
    /\ consumer = NoConsumer
    /\ ws = "none"
    /\ remote = NoRemote
    /\ stream = NoStream

Next ==
    \/ PostCreate
    \/ PostDelete
    \/ RepostCreate
    \/ RepostDelete
    \/ OtherEvent
    \/ Tick

Spec == Init /\ [][Next]_vars

----------------------------------------------------------------------------
(* The feed under pagination: the router's events and the clients' requests *)

\* record.createdAt of the events: hour 1, or missing (the clock reads 0)
FeedCreatedAts == {IsoFormat(1), Absent}
FeedPostKeys == {<<A, <<"1">>>>, <<B, <<"1">>>>}

\* the limit parameter: a page size, or none (the default)
Limits == (1..MaxLimit) \cup {FEED_PAGE_SIZE}

\* cursors that are not "<sort_time>::<id>": the empty string, no separator, two
\* separators, an id that is no integer
MalformedCursors ==
    {<<>>,
     <<"0", "1">>,
     <<"0", "1", ":", ":", "1", ":", ":", "1">>,
     <<"0", "1", ":", ":", "x">>}

FeedPostCreate ==
    \E k \in FeedPostKeys, createdAt \in FeedCreatedAts :
        /\ seq < MaxFeedSeq
        /\ ProcessJetstreamEvent(Event("commit", POST, "create", k[1], k[2], createdAt, <<>>))
        /\ UNCHANGED <<now, httpVars, bgVars>>

FeedPostDelete ==
    \E k \in FeedPostKeys :
        /\ ProcessJetstreamEvent(Event("commit", POST, "delete", k[1], k[2], Absent, <<>>))
        /\ UNCHANGED <<now, httpVars, bgVars>>

FeedRepostCreate ==
    \E k \in RepostKeys, createdAt \in FeedCreatedAts :
        /\ seq < MaxFeedSeq
        /\ ProcessJetstreamEvent(Event("commit", REPOST, "create", k[1], k[2], createdAt,
                                       PostUri(A, <<"1">>)))
        /\ UNCHANGED <<now, httpVars, bgVars>>

FeedRepostDelete ==
    \E k \in RepostKeys :
        /\ ProcessJetstreamEvent(Event("commit", REPOST, "delete", k[1], k[2], Absent, <<>>))
        /\ UNCHANGED <<now, httpVars, bgVars>>

\* a client asks for the newest page: a walk begins
FirstPage ==
    \E limit \in Limits :
        LET resp == HandleGetFeedSkeleton(limit, NULL)
        IN /\ request' = [limit |-> limit, cursor |-> NULL,
                          auth |-> NoAuthorization, allowed |-> {}]
           /\ response' = resp
           /\ walk' = [active |-> TRUE, limit |-> limit, pages |-> 1, items |-> resp.feed,
                       cursor |-> resp.cursor, base |-> <<feed_items, seq>>,
                       seen |-> feed_items]
           /\ UNCHANGED <<storeVars, now, event, bgVars>>

\* the client follows the continuation cursor of the page it got last
NextPage ==
    /\ walk.active
    /\ walk.cursor # NULL
    /\ walk.pages < MaxPages
    /\ LET resp == HandleGetFeedSkeleton(walk.limit, walk.cursor)
       IN /\ request' = [limit |-> walk.limit, cursor |-> walk.cursor,
                         auth |-> NoAuthorization, allowed |-> {}]
          /\ response' = resp
          /\ walk' = [walk EXCEPT !.pages = @ + 1, !.items = @ \o resp.feed,
                                  !.cursor = resp.cursor, !.seen = feed_items]
    /\ UNCHANGED <<storeVars, now, event, bgVars>>

\* a request with a cursor that is not of the form "<sort_time>::<id>"
MalformedCursorRequest ==
    \E limit \in Limits, cursor \in MalformedCursors :
        /\ request' = [limit |-> limit, cursor |-> cursor,
                       auth |-> NoAuthorization, allowed |-> {}]
        /\ response' = HandleGetFeedSkeleton(limit, cursor)
        /\ UNCHANGED <<storeVars, now, event, walk, bgVars>>

NextFeed ==
    \/ FeedPostCreate
    \/ FeedPostDelete
    \/ FeedRepostCreate
    \/ FeedRepostDelete
    \/ FirstPage
    \/ NextPage
    \/ MalformedCursorRequest

SpecFeed == Init /\ [][NextFeed]_vars

----------------------------------------------------------------------------
(* The feed under inserts during a pagination walk *)

WalkPostCreate ==
    \E k \in FeedPostKeys, createdAt \in FeedCreatedAts :
        /\ seq < MaxWalkSeq
        /\ ProcessJetstreamEvent(Event("commit", POST, "create", k[1], k[2], createdAt, <<>>))
        /\ UNCHANGED <<now, httpVars, bgVars>>

NextWalk ==
    \/ WalkPostCreate
    \/ FirstPage
    \/ NextPage

SpecWalk == Init /\ [][NextWalk]_vars

----------------------------------------------------------------------------
(* Walks over a store that is not modified: the router's events fall between the
   walks, and a client follows the continuation cursors for as long as it gets one *)

\* no walk is in progress: none has begun, or the last one got no cursor
NoWalkInProgress == ~walk.active \/ walk.cursor = NULL

TerminationPostCreate ==
    \E k \in FeedPostKeys, createdAt \in FeedCreatedAts :
        /\ NoWalkInProgress
        /\ seq < MaxTerminationSeq
        /\ ProcessJetstreamEvent(Event("commit", POST, "create", k[1], k[2], createdAt, <<>>))
        /\ UNCHANGED <<now, httpVars, bgVars>>

TerminationRepostCreate ==
    \E k \in RepostKeys, createdAt \in FeedCreatedAts :
        /\ NoWalkInProgress
        /\ seq < MaxTerminationSeq
        /\ ProcessJetstreamEvent(Event("commit", REPOST, "create", k[1], k[2], createdAt,
                                       PostUri(A, <<"1">>)))
        /\ UNCHANGED <<now, httpVars, bgVars>>

\* a client asks for the newest page
WalkBegin ==
    /\ NoWalkInProgress
    /\ FirstPage

\* the client asks for the page after the cursor it got, however many pages it has
\* got (the walk records its first MaxPages pages)
WalkContinue ==
    /\ walk.active
    /\ walk.cursor # NULL
    /\ LET resp == HandleGetFeedSkeleton(walk.limit, walk.cursor)
       IN /\ request' = [limit |-> walk.limit, cursor |-> walk.cursor,
                         auth |-> NoAuthorization, allowed |-> {}]
          /\ response' = resp
          /\ walk' = [walk EXCEPT !.pages = Min(@ + 1, MaxPages),
                                  !.items = IF walk.pages < MaxPages THEN @ \o resp.feed
                                            ELSE @,
                                  !.cursor = resp.cursor, !.seen = feed_items]
    /\ UNCHANGED <<storeVars, now, event, bgVars>>

NextTermination ==
    \/ TerminationPostCreate
    \/ TerminationRepostCreate
    \/ WalkBegin
    \/ WalkContinue

SpecTermination == Init /\ [][NextTermination]_vars

\* the request of a client that got a cursor: the same limit, and that cursor
ClientAsksNext ==
    /\ walk.active
    /\ walk.cursor # NULL
    /\ request' = [limit |-> walk.limit, cursor |-> walk.cursor,
                   auth |-> NoAuthorization, allowed |-> {}]

\* a client that got a cursor sends its next request (a request that repeats the
\* one before it gets the response it got before: the step changes nothing)
SpecTerminationFair == SpecTermination /\ WF_request(ClientAsksNext)

----------------------------------------------------------------------------
(* The store under the retention sweep: the router's events, the clock, the job *)

\* createdAt texts: hour 50 with the zulu marker, and hour 52 at three hours east
\* of UTC, which is hour 49 in UTC
ZuluHour50 == <<"5", "0", "Z">>
Hour52East3 == <<"5", "2", "+", "0", "3">>
SweepCreatedAts == {Absent, ZuluHour50, Hour52East3}
SweepClockValues == {50, 98}

SweepPostCreate ==
    \E k \in FeedPostKeys, createdAt \in SweepCreatedAts :
        /\ seq < MaxSweepSeq
        /\ ProcessJetstreamEvent(Event("commit", POST, "create", k[1], k[2], createdAt, <<>>))
        /\ UNCHANGED <<now, httpVars, bgVars>>

SweepRepostCreate ==
    \E k \in RepostKeys, createdAt \in SweepCreatedAts :
        /\ seq < MaxSweepSeq
        /\ ProcessJetstreamEvent(Event("commit", REPOST, "create", k[1], k[2], createdAt,
                                       PostUri(A, <<"1">>)))
        /\ UNCHANGED <<now, httpVars, bgVars>>

SweepTick ==
    /\ \E t \in SweepClockValues : t > now /\ now' = t
    /\ UNCHANGED <<storeVars, event, httpVars, bgVars>>

\* one round of periodic_db_cleanup, once the clock is a retention age past its origin
PeriodicDbCleanup ==
    /\ now >= DB_RETENTION_HOURS
    /\ PeriodicDbCleanupRound(TRUE)
    /\ UNCHANGED <<seq, now, event, httpVars, followVars, streamVars>>

NextSweep ==
    \/ SweepPostCreate
    \/ SweepRepostCreate
    \/ SweepTick
    \/ PeriodicDbCleanup

SpecSweep == Init /\ [][NextSweep]_vars

----------------------------------------------------------------------------
(* The follow list under refresh: the calls of refresh_follow_list, the upstream's
   answers, and a reader on another connection *)

nonFollowVars == <<storeVars, now, event, httpVars, cleanup, streamVars>>

\* the pages the upstream answers with
FollowPages == {<<>>, <<A>>, <<B>>}
UpstreamResults == {"ok", "status", "error"}

RefreshFollowList ==
    /\ refresh.calls < MaxRefreshes
    /\ RefreshBegin
    /\ UNCHANGED nonFollowVars

Resolve ==
    \E result \in UpstreamResults :
        /\ ResolveHandleToDid(result)
        /\ UNCHANGED nonFollowVars

Fetch ==
    \E result \in UpstreamResults, page \in FollowPages, more \in BOOLEAN :
        /\ more => refresh.pages + 1 < MaxFollowPages
        /\ FetchFollows(result, page, more)
        /\ UNCHANGED nonFollowVars

ReplaceDelete ==
    /\ ReplaceFollowsDelete
    /\ UNCHANGED nonFollowVars

ReplaceInsert ==
    /\ ReplaceFollowsInsert
    /\ UNCHANGED nonFollowVars

ReplaceCommit ==
    /\ ReplaceFollowsCommit
    /\ UNCHANGED nonFollowVars

\* get_followed_dids on another connection, at any point of the replace
ReadFollows ==
    /\ read' = [dids |-> GetFollowedDids(follows, refresh.tx, refresh.open),
                pc |-> refresh.pc, tx |-> refresh.tx]
    /\ UNCHANGED <<follows, service_state, refresh, nonFollowVars>>

NextFollows ==
    \/ RefreshFollowList
    \/ Resolve
    \/ Fetch
    \/ ReplaceDelete
    \/ ReplaceInsert
    \/ ReplaceCommit
    \/ ReadFollows

SpecFollows == Init /\ [][NextFollows]_vars

----------------------------------------------------------------------------
(* The running service: run(), the stream consumer, the follow refresh *)

\* what the stream carries: A publishes a post
StreamEvents == {Event("commit", POST, "create", A, <<"1">>, Absent, <<>>)}
StreamFollowPages == {<<A>>, <<B>>}
\* how the handling of a message ends
RouteOutcomes == {"handled", "undecodable", "raised", "interrupted"}

\* run(): db.init_db() returns, or raises and startup is aborted
RunInitDb ==
    /\ proc = "init_db"
    /\ \E schema_ok \in BOOLEAN :
          proc' = IF schema_ok THEN "initial_refresh" ELSE "aborted"
    /\ UNCHANGED <<storeVars, now, event, httpVars, cleanup, followVars,
                   consumer, ws, remote, stream>>

\* what the caller of refresh_follow_list does when the call ends.  run(): an
\* exception leaves run(); a list starts the tasks, the consumer with that list.
\* periodic_follow_refresh: an exception is logged; a list is sent as
\* options_update when consume_jetstream.ws is an open connection.
RefreshCaller ==
    IF refresh'.pc # "idle"
    THEN UNCHANGED <<proc, consumer, ws, remote>>
    ELSE IF proc = "initial_refresh"
    THEN /\ proc' = IF refresh'.outcome = "returned" THEN "running" ELSE "crashed"
         /\ consumer' = IF refresh'.outcome = "returned"
                        THEN [NoConsumer EXCEPT !.pc = "build",
                                                !.followed_dids = refresh'.returned]
                        ELSE consumer
         /\ UNCHANGED <<ws, remote>>
    ELSE /\ remote' = IF refresh'.outcome = "returned" /\ ws = "open"
                      THEN [remote EXCEPT !.wantedDids = refresh'.returned,
                                          !.updates = remote.updates + 1]
                      ELSE remote
         /\ UNCHANGED <<proc, consumer, ws>>

\* run() calls refresh_follow_list once; periodic_follow_refresh calls it after
\* every sleep (the consumer task, created first, has run to its first await by then)
ServiceRefresh ==
    /\ refresh.calls < MaxRefreshes
    /\ \/ proc = "initial_refresh" /\ refresh.calls = 0
       \/ proc = "running" /\ consumer.pc # "build"
    /\ RefreshBegin
    /\ UNCHANGED <<storeVars, now, event, httpVars, cleanup, streamVars>>

ServiceResolve ==
    \E result \in UpstreamResults :
        /\ ResolveHandleToDid(result)
        /\ RefreshCaller
        /\ UNCHANGED <<storeVars, now, event, httpVars, cleanup, stream>>

ServiceFetch ==
    \E result \in UpstreamResults, page \in StreamFollowPages :
        /\ FetchFollows(result, page, FALSE)
        /\ RefreshCaller
        /\ UNCHANGED <<storeVars, now, event, httpVars, cleanup, stream>>

ServiceReplaceDelete ==
    /\ ReplaceFollowsDelete
    /\ UNCHANGED <<storeVars, now, event, httpVars, cleanup, streamVars>>

ServiceReplaceInsert ==
    /\ ReplaceFollowsInsert
    /\ RefreshCaller
    /\ UNCHANGED <<storeVars, now, event, httpVars, cleanup, stream>>

ServiceReplaceCommit ==
    /\ ReplaceFollowsCommit
    /\ RefreshCaller
    /\ UNCHANGED <<storeVars, now, event, httpVars, cleanup, stream>>

Build ==
    \E store_ok \in BOOLEAN :
        /\ ConsumerBuild(store_ok)
        /\ UNCHANGED <<storeVars, now, event, httpVars, cleanup, followVars, proc>>

Connect ==
    \E connected \in BOOLEAN :
        /\ ConsumerConnect(connected)
        /\ UNCHANGED <<storeVars, now, event, httpVars, cleanup, followVars, proc>>

Disconnect ==
    /\ ConsumerDisconnect
    /\ UNCHANGED <<storeVars, now, event, httpVars, cleanup, followVars, proc>>

Route ==
    \E ev \in StreamEvents, outcome \in RouteOutcomes :
        /\ stream.next <= MaxMessages
        /\ seq < MaxStreamSeq
        /\ Delivers(remote, ev.did)
        /\ ConsumerRoute(ev, outcome)
        /\ UNCHANGED <<now, httpVars, cleanup, followVars, proc>>

Persist ==
    \E store_ok \in BOOLEAN :
        /\ ConsumerPersist(store_ok)
        /\ UNCHANGED <<storeVars, now, event, httpVars, cleanup, follows, refresh, read,
                       proc>>

Sleep ==
    /\ ConsumerSleep
    /\ UNCHANGED <<storeVars, now, event, httpVars, cleanup, followVars, proc>>

Reload ==
    \E store_ok \in BOOLEAN, build_ok \in BOOLEAN :
        /\ ConsumerReload(store_ok, build_ok)
        /\ UNCHANGED <<storeVars, now, event, httpVars, cleanup, followVars, proc>>

NextService ==
    \/ RunInitDb
    \/ ServiceRefresh
    \/ ServiceResolve
    \/ ServiceFetch
    \/ ServiceReplaceDelete
    \/ ServiceReplaceInsert
    \/ ServiceReplaceCommit
    \/ Build
    \/ Connect
    \/ Disconnect
    \/ Route
    \/ Persist
    \/ Sleep
    \/ Reload

SpecService == Init /\ [][NextService]_vars

\* the service while the stream carries no message: startup, the follow refresh and
\* the connection cycle of the consumer
NextConnection ==
    \/ RunInitDb
    \/ ServiceRefresh
    \/ ServiceResolve
    \/ ServiceFetch
    \/ ServiceReplaceDelete
    \/ ServiceReplaceInsert
    \/ ServiceReplaceCommit
    \/ Build
    \/ Connect
    \/ Disconnect
    \/ Sleep
    \/ Reload

SpecConnection == Init /\ [][NextConnection]_vars

\* the event loop runs the consumer task whenever it can take a step: a sleep ends,
\* a connection attempt returns or raises
ConsumerStep == Build \/ Connect \/ Sleep \/ Reload
SpecServiceFair == SpecService /\ WF_vars(ConsumerStep)

----------------------------------------------------------------------------
(* The endpoint under requests of any limit and any requester *)

\* the limit parameter: negative, zero, one, a full page, more than a full page
ClientLimits == {-1, 0, 1, FEED_PAGE_SIZE, FEED_PAGE_SIZE + 1}

\* Authorization: "Bearer " + header.payload.signature
Bearer(payload) == <<"Bearer ", "h", ".", payload, ".", "s">>

\* no header; another scheme; a token with one part; a payload that is no JSON; a
\* payload without iss, with an empty iss, with the did of A, of B
Authorizations ==
    {NoAuthorization, <<"Basic ", "x">>, <<"Bearer ", "h">>, Bearer("bm90IGpzb24"),
     Bearer("e30"), Bearer("eyJpc3MiOiIifQ"),
     Bearer("eyJpc3MiOiJkaWQ6YSJ9"), Bearer("eyJpc3MiOiJkaWQ6YiJ9")}

\* config.ALLOWED_DIDS: open to all, or A alone
AllowedDidsSettings == {{}, {A}}

\* an account publishes a post with no createdAt
RequestsPostCreate ==
    \E k \in FeedPostKeys :
        /\ seq < MaxRequestSeq
        /\ ProcessJetstreamEvent(Event("commit", POST, "create", k[1], k[2], Absent, <<>>))
        /\ UNCHANGED <<now, httpVars, bgVars>>

\* a request for the newest page with a limit parameter, on an open feed
LimitedRequest ==
    \E limit \in ClientLimits :
        /\ request' = [limit |-> limit, cursor |-> NULL,
                       auth |-> NoAuthorization, allowed |-> {}]
        /\ response' = HandleFeedRequest(NoAuthorization, {}, limit, NULL)
        /\ UNCHANGED <<storeVars, now, event, walk, bgVars>>

\* a request for the newest page with an Authorization header, under a setting of
\* ALLOWED_DIDS
IdentifiedRequest ==
    \E auth \in Authorizations, allowed \in AllowedDidsSettings :
        /\ request' = [limit |-> FEED_PAGE_SIZE, cursor |-> NULL,
                       auth |-> auth, allowed |-> allowed]
        /\ response' = HandleFeedRequest(auth, allowed, FEED_PAGE_SIZE, NULL)
        /\ UNCHANGED <<storeVars, now, event, walk, bgVars>>

NextRequests ==
    \/ RequestsPostCreate
    \/ LimitedRequest
    \/ IdentifiedRequest

SpecRequests == Init /\ [][NextRequests]_vars

----------------------------------------------------------------------------
(* The periodic jobs: run(), the follow refresh, the retention sweep, the clock *)

\* A publishes a post with no createdAt
JobsPostCreate ==
    /\ seq < MaxJobsSeq
    /\ ProcessJetstreamEvent(Event("commit", POST, "create", A, <<"1">>, Absent, <<>>))
    /\ UNCHANGED <<now, httpVars, bgVars>>

\* the clock passes the retention age: what was stored at the origin is old
JobsTick ==
    /\ now < DB_RETENTION_HOURS
    /\ now' = DB_RETENTION_HOURS + 1
    /\ UNCHANGED <<storeVars, event, httpVars, bgVars>>

\* run() calls refresh_follow_list once; then the sleep of periodic_follow_refresh
\* ends, round after round
JobsRefresh ==
    /\ \/ proc = "initial_refresh" /\ refresh.calls = 0
       \/ proc = "running"
    /\ RefreshBegin
    /\ UNCHANGED <<storeVars, now, event, httpVars, cleanup, streamVars>>

\* the sleep of periodic_db_cleanup ends, round after round, once run() has created
\* the task (and the clock is a retention age past its origin)
JobsCleanup ==
    \E store_ok \in BOOLEAN :
        /\ proc = "running"
        /\ now >= DB_RETENTION_HOURS
        /\ PeriodicDbCleanupRound(store_ok)
        /\ UNCHANGED <<seq, now, event, httpVars, followVars, streamVars>>

NextJobs ==
    \/ RunInitDb
    \/ JobsPostCreate
    \/ JobsTick
    \/ JobsRefresh
    \/ ServiceResolve
    \/ ServiceFetch
    \/ ServiceReplaceDelete
    \/ ServiceReplaceInsert
    \/ ServiceReplaceCommit
    \/ JobsCleanup

SpecJobs == Init /\ [][NextJobs]_vars

\* the event loop runs each task when its sleep ends, and every upstream request of
\* a refresh is answered or fails
RefreshJobStep ==
    \/ JobsRefresh
    \/ ServiceResolve
    \/ ServiceFetch
    \/ ServiceReplaceDelete
    \/ ServiceReplaceInsert
    \/ ServiceReplaceCommit
SpecJobsFair == SpecJobs /\ WF_vars(RefreshJobStep) /\ WF_vars(JobsCleanup)

----------------------------------------------------------------------------
(* The lifetime of the rows: the router's events, the clock, the retention sweep,
   the follow refresh *)

LifetimePostCreate ==
    \E k \in FeedPostKeys :
        /\ seq < MaxLifetimeSeq
        /\ ProcessJetstreamEvent(Event("commit", POST, "create", k[1], k[2], Absent, <<>>))
        /\ UNCHANGED <<now, httpVars, bgVars>>

LifetimeRepostCreate ==
    \E k \in RepostKeys :
        /\ seq < MaxLifetimeSeq
        /\ ProcessJetstreamEvent(Event("commit", REPOST, "create", k[1], k[2], Absent,
                                       PostUri(A, <<"1">>)))
        /\ UNCHANGED <<now, httpVars, bgVars>>

NextLifetime ==
    \/ LifetimePostCreate
    \/ FeedPostDelete
    \/ LifetimeRepostCreate
    \/ FeedRepostDelete
    \/ JobsTick
    \/ PeriodicDbCleanup
    \/ RefreshFollowList
    \/ ServiceResolve
    \/ ServiceFetch
    \/ ServiceReplaceDelete
    \/ ServiceReplaceInsert
    \/ ServiceReplaceCommit

SpecLifetime == Init /\ [][NextLifetime]_vars

----------------------------------------------------------------------------
(* Vocabulary of the properties *)

\* a timestamp text: the fixed-width hour count, with or without the zulu marker
IsTimestamp(t) == \E h \in 0..99 : t = IsoFormat(h) \/ t = IsoFormat(h) \o <<"Z">>
HourOfTimestamp(t) == CHOOSE h \in 0..99 : t = IsoFormat(h) \/ t = IsoFormat(h) \o <<"Z">>

\* the positions of the "/" tokens of a uri
Slashes(uri) == {i \in 1..Len(uri) : uri[i] = "/"}

\* scheme://<author-id>/<collection>/<record-key>, every part non-empty
IsResourceName(uri) ==
    /\ Len(uri) >= 1 /\ uri[1] = "at://"
    /\ \E i, j \in Slashes(uri) :
        /\ Slashes(uri) = {i, j}
        /\ 2 < i /\ i + 1 < j /\ j < Len(uri)

\* the author part of a uri: what lies between the scheme and the first "/"
AuthorPart(uri) ==
    IF Len(uri) >= 1 /\ uri[1] = "at://"
    THEN IF Slashes(uri) = {} THEN SubSeq(uri, 2, Len(uri))
         ELSE SubSeq(uri, 2, (CHOOSE i \in Slashes(uri) : \A j \in Slashes(uri) : i <= j) - 1)
    ELSE NULL

PostStored(uri) == \E p \in posts : p.uri = uri
StoredPost(uri) == CHOOSE p \in posts : p.uri = uri
Reposters == DIDs
Subjects == {i[1] : i \in RepostCreateInputs} \cup {PostUri(k[1], k[2]) : k \in PostKeys}

\* the step is the router's handling of a create / delete event of the collection
IsCommit(ev, collection, operation) ==
    ev.kind = "commit" /\ ev.collection = collection /\ ev.operation = operation
RouterStep(collection, operation) ==
    /\ IsCommit(event', collection, operation)
    /\ now' = now

----------------------------------------------------------------------------
(* Properties of the self-repost filter *)

\* C4: for a self-repost (the reposter is the author extracted from the subject uri)
\* whose subject post is stored with a valid creation timestamp, should_filter is
\* true exactly when now - creation timestamp is strictly less than the threshold;
\* at the threshold and above it is false.
C4_FilteredIffYoungerThanThreshold ==
    \A did \in Reposters, subject \in Subjects :
        (did = AuthorPart(subject) /\ PostStored(subject)
            /\ IsTimestamp(StoredPost(subject).created_at))
        => (ShouldFilterRepost(did, subject)
              <=> now - HourOfTimestamp(StoredPost(subject).created_at)
                    < SELF_REPOST_MAX_AGE_HOURS)

\* C4 witness: A's repost of its own post, created at hour 0, was processed at hour 24
\* (age = threshold) and stored unfiltered.
C4_Witness ==
    /\ IsCommit(event, REPOST, "create") /\ event.did = A
    /\ event.subject = PostUri(A, <<"1">>)
    /\ now = SELF_REPOST_MAX_AGE_HOURS
    /\ PostStored(event.subject)
    /\ StoredPost(event.subject).created_at = ZuluHour0
    /\ \E r \in feed_items :
        r.id = seq /\ r.reposter_did = A /\ r.post_uri = event.subject /\ ~r.is_filtered

\* C5 (as claimed): should_filter is false for every subject uri that has not the
\* resource-name shape, for every reposter, in every state the router reaches.
C5_MalformedSubjectNeverFiltered ==
    \A did \in Reposters, subject \in Subjects :
        ~IsResourceName(subject) => ~ShouldFilterRepost(did, subject)

\* C6: should_filter is true only if the reposter is the author extracted from the
\* subject uri and the subject post is in the store.
C6_FilteredOnlySelfRepostOfStoredPost ==
    \A did \in Reposters, subject \in Subjects :
        ShouldFilterRepost(did, subject)
        => (did = AuthorPart(subject) /\ PostStored(subject))

\* C6 witness: B's repost of A's stored, one hour old post was processed and stored
\* unfiltered.
C6_Witness ==
    /\ IsCommit(event, REPOST, "create") /\ event.did = B
    /\ event.subject = PostUri(A, <<"1">>)
    /\ PostStored(event.subject)
    /\ StoredPost(event.subject).created_at = ZuluHour0
    /\ now = 1
    /\ \E r \in feed_items :
        r.id = seq /\ r.reposter_did = B /\ r.post_uri = event.subject /\ ~r.is_filtered

----------------------------------------------------------------------------
(* Properties of the event router *)

\* the flag the claim expects for a repost by did of subject, processed now
ExpectedFiltered(did, subject) ==
    /\ did = AuthorPart(subject)
    /\ PostStored(subject)
    /\ IsTimestamp(StoredPost(subject).created_at)
    /\ now - HourOfTimestamp(StoredPost(subject).created_at) < SELF_REPOST_MAX_AGE_HOURS

\* C7: a repost-create event with a subject inserts exactly one FeedItem: it
\* references the subject post, carries the repost's own uri, reposter and timestamp,
\* and its filtered flag is should_filter at processing time; with the threshold of
\* 24h, A's repost of its own post is stored filtered at age 1h and unfiltered at
\* age 30h, and B's repost of A's post is stored unfiltered.
C7_RepostCreateInsertsOneItem ==
    [][(RouterStep(REPOST, "create") /\ event'.subject # <<>>)
        => LET ev == event'
               item == [id |-> seq + 1,
                        post_uri |-> ev.subject,
                        repost_uri |-> <<"at://">> \o ev.did \o <<"/", REPOST, "/">> \o ev.rkey,
                        reposter_did |-> ev.did,
                        sort_time |-> IF ev.createdAt = Absent THEN IsoFormat(now)
                                      ELSE ev.createdAt,
                        is_filtered |-> ShouldFilterRepost(ev.did, ev.subject)]
               age == now - HourOfTimestamp(StoredPost(ev.subject).created_at)
           IN /\ feed_items' = feed_items \cup {item}
              /\ item \notin feed_items
              /\ posts' = posts
              /\ item.is_filtered = ExpectedFiltered(ev.did, ev.subject)
              /\ (ev.subject = PostUri(A, <<"1">>) /\ PostStored(ev.subject)
                    /\ IsTimestamp(StoredPost(ev.subject).created_at))
                 => /\ (ev.did = A /\ age = 1) => item.is_filtered
                    /\ (ev.did = A /\ age = 30) => ~item.is_filtered
                    /\ ev.did = B => ~item.is_filtered
      ]_vars

\* C7 witness: A reposted its own post, created at hour 0, at hour 1, and the
\* repost's FeedItem is stored filtered.
C7_Witness ==
    /\ IsCommit(event, REPOST, "create") /\ event.did = A
    /\ event.subject = PostUri(A, <<"1">>)
    /\ now = 1
    /\ PostStored(event.subject)
    /\ StoredPost(event.subject).created_at = ZuluHour0
    /\ \E r \in feed_items :
        /\ r.id = seq /\ r.reposter_did = A /\ r.post_uri = event.subject
        /\ r.repost_uri = RepostUri(A, event.rkey) /\ r.is_filtered

\* C8: inserting a Post and getting it by uri returns the author and creation
\* timestamp inserted; inserting a Post whose uri is present leaves exactly one row
\* for the uri, with the author and creation timestamp inserted first.
C8_PostInsertGetRoundTrip ==
    [][RouterStep(POST, "create")
        => LET ev == event'
               uri == <<"at://">> \o ev.did \o <<"/", POST, "/">> \o ev.rkey
               created_at == IF ev.createdAt = Absent THEN IsoFormat(now) ELSE ev.createdAt
               got == GetPost(posts', uri)
           IN /\ Cardinality({p \in posts' : p.uri = uri}) = 1
              /\ got.uri = uri
              /\ IF PostStored(uri)
                 THEN /\ got.author_did = StoredPost(uri).author_did
                      /\ got.created_at = StoredPost(uri).created_at
                 ELSE /\ got.author_did = ev.did
                      /\ got.created_at = created_at
      ]_vars

\* C8 witness: a second create of A's post, with another timestamp, was processed;
\* the store holds one Post for the uri, with the first timestamp.
C8_Witness ==
    /\ IsCommit(event, POST, "create") /\ event.did = A /\ event.rkey = <<"1">>
    /\ event.createdAt = ZuluHour0
    /\ Cardinality({p \in posts : p.uri = PostUri(A, <<"1">>)}) = 1
    /\ GetPost(posts, PostUri(A, <<"1">>)).created_at = NotATime
    /\ Cardinality({r \in feed_items : r.post_uri = PostUri(A, <<"1">>)}) = 2

\* the rows a create event of the collection for (did, rkey) accounts for
RowsOfPost(P, uri) == {p \in P : p.uri = uri}
DirectItems(F, uri) == {r \in F : r.post_uri = uri /\ r.repost_uri = NULL}
RepostItems(F, uri) == {r \in F : r.repost_uri = uri}

\* C9 (as claimed): a post-create or repost-create event for a uri that was processed
\* before (its rows are in the store) does not add rows: the Post and FeedItem tables
\* hold as many rows for the uri as before.
C9_CreateIsIdempotent ==
    [][/\ RouterStep(POST, "create")
          => LET uri == PostUri(event'.did, event'.rkey)
             IN DirectItems(feed_items, uri) # {}
                => /\ Cardinality(RowsOfPost(posts', uri)) = Cardinality(RowsOfPost(posts, uri))
                   /\ Cardinality(DirectItems(feed_items', uri))
                        = Cardinality(DirectItems(feed_items, uri))
       /\ (RouterStep(REPOST, "create") /\ event'.subject # <<>>)
          => LET uri == RepostUri(event'.did, event'.rkey)
             IN RepostItems(feed_items, uri) # {}
                => Cardinality(RepostItems(feed_items', uri))
                     = Cardinality(RepostItems(feed_items, uri))
      ]_vars

\* C10: once a post-delete event for uri U is processed, the store holds no Post
\* with uri U and no FeedItem referencing post uri U, direct or repost, filtered or not.
C10_PostDeleteRemovesAllAppearances ==
    IsCommit(event, POST, "delete")
    => LET uri == <<"at://">> \o event.did \o <<"/", POST, "/">> \o event.rkey
       IN /\ \A p \in posts : p.uri # uri
          /\ \A r \in feed_items : r.post_uri # uri

\* C10 witness: the post-delete of A's post was processed after two rows had been
\* inserted, and the store holds no row.
C10_Witness ==
    /\ IsCommit(event, POST, "delete") /\ event.did = A /\ event.rkey = <<"1">>
    /\ seq = 2
    /\ feed_items = {}
    /\ posts = {}

----------------------------------------------------------------------------
(* Properties of the feed skeleton endpoint *)

\* a request was handled: nothing but request, response and walk may change
RequestStep == UNCHANGED <<storeVars, now, event>>

\* every row ever inserted is still stored, and each has a strictly smaller sort
\* timestamp than the rows inserted before it
InsertedWithDecreasingSortTimes ==
    /\ Cardinality(feed_items) = seq
    /\ \A r, q \in feed_items : r.id < q.id => TextLess(q.sort_time, r.sort_time)

\* the non-filtered items in (sort_time descending, id descending) order
UnfilteredInOrder ==
    LET rows == OrderBySortTimeIdDesc({r \in feed_items : ~r.is_filtered})
    IN [i \in 1..Len(rows) |-> SkeletonItem(rows[i])]

IsPrefix(s, t) == Len(s) <= Len(t) /\ s = SubSeq(t, 1, Len(s))

\* C1: when N feed items were inserted with strictly decreasing sort timestamps and
\* the store has not changed since the walk began, a walk from no cursor along the
\* continuation cursors with a fixed page size has returned, page after page, the
\* non-filtered items in (sort_time descending, id descending) order with no repeat
\* and no gap, and when it has ended it has returned every one of them once.
C1_WalkVisitsEveryUnfilteredItemOnce ==
    (/\ walk.active
     /\ walk.base = <<feed_items, seq>>
     /\ InsertedWithDecreasingSortTimes)
    => /\ IsPrefix(walk.items, UnfilteredInOrder)
       /\ walk.cursor = NULL => walk.items = UnfilteredInOrder

\* C2: every non-empty page carries the continuation cursor "<sort_time>::<id>" of
\* the last row the query returned for that page, and of no other row.
C2_CursorIsOfLastReturnedRow ==
    [][(RequestStep /\ response'.feed # <<>>)
       => LET rows == SkeletonRows(feed_items, Min(request'.limit, FEED_PAGE_SIZE),
                                   request'.cursor).rows
              last == rows[Len(rows)]
          IN /\ Len(rows) = Len(response'.feed)
             /\ response'.cursor = FormatCursor(last.sort_time, last.id)]_vars

\* C3: a request whose cursor is malformed (empty, a wrong number of "::", an id
\* part that is no integer) gets the response of the same request with no cursor.
C3_MalformedCursorStartsFromNewest ==
    [][(RequestStep /\ request'.cursor \in MalformedCursors)
       => response' = HandleGetFeedSkeleton(request'.limit, NULL)]_vars

----------------------------------------------------------------------------
(* Properties of the repost-delete handler *)

\* C11: processing a repost-delete event for the repost uri R removes the FeedItems
\* whose repost uri is R and nothing else: the Post table is as before, and so is
\* every other FeedItem (direct items, the items of other reposts of the same post).
C11_RepostDeleteRemovesOnlyThatRepost ==
    [][RouterStep(REPOST, "delete")
       => LET R == RepostUri(event'.did, event'.rkey)
          IN /\ posts' = posts
             /\ feed_items' = {r \in feed_items : r.repost_uri # R}
             /\ seq' = seq]_vars

\* C11 witness: B's repost of A's post was deleted after two rows had been inserted;
\* the row that is left is A's repost of the same post.
C11_Witness ==
    /\ IsCommit(event, REPOST, "delete") /\ event.did = B /\ event.rkey = <<"1">>
    /\ seq = 2
    /\ \E r \in feed_items :
          /\ feed_items = {r}
          /\ r.id = 1
          /\ r.post_uri = PostUri(A, <<"1">>)
          /\ r.repost_uri = RepostUri(A, <<"1">>)

----------------------------------------------------------------------------
(* Properties of the retention sweep *)

\* the instant a stored timestamp text denotes, in hours UTC
HasInstant(t) == IsIsoFormat(IF EndsWith(t, <<"Z">>) THEN SubSeq(t, 1, Len(t) - 1) ELSE t)
InstantOf(t) == FromIsoFormat(IF EndsWith(t, <<"Z">>) THEN SubSeq(t, 1, Len(t) - 1) ELSE t)

\* the sweep ran: the store changed (or not) with no event routed and no clock tick
SweepStep == UNCHANGED <<seq, now, event>>

\* C12: the retention sweep, with cutoff = now - retention age, removes exactly the
\* FeedItems whose sort_time is before the cutoff and the Posts whose creation
\* timestamp is before the cutoff, filtered or not; every row at or after the
\* cutoff survives; the returned count is the number of rows removed.
C12_SweepRemovesExactlyTheOld ==
    [][SweepStep
       => LET cutoff == now - DB_RETENTION_HOURS
              old_items == {r \in feed_items :
                              HasInstant(r.sort_time) /\ InstantOf(r.sort_time) < cutoff}
              old_posts == {p \in posts :
                              HasInstant(p.created_at) /\ InstantOf(p.created_at) < cutoff}
          IN /\ feed_items' = feed_items \ old_items
             /\ posts' = posts \ old_posts
             /\ cleanup'.deleted = Cardinality(old_items) + Cardinality(old_posts)]_vars

----------------------------------------------------------------------------
(* Properties of the follow list *)

\* a read on another connection: the table and the refresh are where they were
ReaderStep == UNCHANGED <<follows, refresh>>

\* C13: the followed set is replaced atomically.  Whatever the point of the replace a
\* read falls on, it returns the complete set from before the replace or the complete
\* new set, never an empty or partial one; and when the replace fails part-way, the
\* stored set is the set from before the replace.
C13_FollowsReplacedAtomically ==
    [][/\ ReaderStep
          => IF refresh.open
             THEN read'.dids = refresh.old \/ read'.dids = SetOf(refresh.follows)
             ELSE read'.dids = follows
       /\ (refresh.open /\ refresh'.outcome = "raised")
          => follows' = follows /\ follows' = refresh.old]_vars

\* C13 witness: a read fell between two INSERTs of a replace (the transaction held
\* some rows) and returned the non-empty set from before; the replace then failed
\* and the stored set is still that set.
C13_Witness ==
    /\ read.pc = "insert" /\ read.tx # {} /\ read.dids # {} /\ read.dids # read.tx
    /\ refresh.outcome = "raised" /\ refresh.failed = "replace"
    /\ follows = read.dids

\* a call of refresh_follow_list ends
RefreshEnds == refresh.pc # "idle" /\ refresh'.pc = "idle"

\* C14: follow refresh is fail-open.  When the handle resolution failed, or the fetch
\* failed on any of its pages, or the fetched result was empty, the stored set after
\* the call is the stored set before it, and the call returns that set.
C14_RefreshIsFailOpen ==
    [][(RefreshEnds /\ refresh'.failed \in {"resolve", "page", "empty"})
       => /\ follows' = refresh.old
          /\ refresh'.outcome = "returned"
          /\ refresh'.returned = refresh.old]_vars

----------------------------------------------------------------------------
(* Properties of the stream consumer *)

\* C15: the consumer has no terminal state.  After every connection error or remote
\* close (the consumer is about to wait), at any point of the run, it eventually
\* makes another connection attempt (it enters the top of its loop once more).
C15_ConsumerReconnectsForever ==
    \A b \in {0, 1} :
        (consumer.pc = "sleep" /\ consumer.attempt = b) ~> (consumer.attempt # b)

\* the time_us the persisted resume cursor stands for (0: none persisted)
PersistedCursor ==
    IF GetState(service_state, "jetstream_cursor") = NULL THEN 0
    ELSE IntOf(GetState(service_state, "jetstream_cursor"))

\* C16: the resume cursor is persisted after every message handed to the router.  At
\* every point of the run (a crash may fall on any), at most one message whose store
\* mutations are committed has a timestamp newer than the persisted cursor, and
\* every message up to the persisted cursor has been handed to the router.
C16_AtMostOneMessageAheadOfCursor ==
    /\ Cardinality({t \in stream.routed : t > PersistedCursor}) <= 1
    /\ \A t \in 1..PersistedCursor : t \in stream.handed

\* C17: every follow set a periodic refresh obtains reaches the remote subscription
\* filter, under every interleaving of the refresh with the consumer: whenever a
\* periodic refresh has returned a set and the consumer holds a live connection, the
\* remote filters on that set (by options_update if the connection was live when the
\* refresh completed, by the connection request otherwise).
C17_RefreshedSetReachesRemote ==
    (/\ refresh.calls >= 2
     /\ refresh.pc = "idle"
     /\ refresh.outcome = "returned"
     /\ ws = "open")
    => remote.wantedDids = refresh.returned

\* C18: no failure other than a failure of the initial schema setup terminates the
\* process or a background task: a store failure in the consumer, and a transport or
\* lookup failure in the initial or a periodic refresh, leave run() and the consumer
\* task running.
C18_OnlySchemaFailureIsFatal ==
    /\ proc # "crashed"
    /\ consumer.pc # "dead"

\* C20: the reconnect backoff starts at 1 second, doubles after each wait and is
\* capped at 60: the wait is always one of 1, 2, 4, 8, 16, 32, 60; the k-th wait in a
\* row without a successful connection lasts min(2^(k-1), 60) seconds; and a
\* successful connection resets the next wait to 1.
C20_BackoffDoublesUpTo60 ==
    /\ consumer.backoff \in {1, 2, 4, 8, 16, 32, 60}
    /\ \A k \in 1..Len(consumer.waits) : consumer.waits[k] = Min(2 ^ (k - 1), 60)
    /\ Len(consumer.waits) < MaxWaits
       => consumer.backoff = Min(2 ^ Len(consumer.waits), 60)
    /\ ws = "open" => consumer.backoff = 1 /\ consumer.waits = <<>>

\* C20 witness: eight waits in a row without a connection, the last two capped; the
\* consumer had been connected before.
C20_Witness ==
    /\ Len(consumer.waits) = 8
    /\ consumer.waits[6] = 32 /\ consumer.waits[7] = 60 /\ consumer.waits[8] = 60
    /\ ws = "closed"

----------------------------------------------------------------------------
(* Properties of a pagination walk under inserts *)

\* the row r is ordered above the cursor c = "<sort_time>::<id>"
AboveCursor(r, c) ==
    LET parts == SplitCursor(c)
    IN \/ TextLess(parts[1], r.sort_time)
       \/ (r.sort_time = parts[1] /\ r.id > IntOf(parts[2]))

\* the client asks for the page after the cursor it holds
FollowsCursor ==
    /\ RequestStep
    /\ walk.active /\ walk.cursor # NULL
    /\ walk'.pages = walk.pages + 1

\* C19: rows inserted above a cursor that was handed out do not perturb the walk.
\* When, since the page that carried the cursor c, rows were only inserted, all of
\* them ordered above c, the page after c (its rows and its continuation cursor) is
\* the page the store of that time would have answered with.
C19_NewerInsertsDoNotPerturbWalk ==
    [][(/\ FollowsCursor
        /\ walk.seen \subseteq feed_items
        /\ \A r \in feed_items \ walk.seen : AboveCursor(r, walk.cursor))
       => response' = SkeletonResponse(walk.seen, walk.limit, walk.cursor)]_vars

----------------------------------------------------------------------------
(* Properties of the ingestion *)

\* the step stores a Post or a FeedItem
StoresRow == ~(posts' \subseteq posts) \/ ~(feed_items' \subseteq feed_items)

\* C21: the system retains only events of followed accounts.  Whenever the event
\* router stores a Post or a FeedItem, the account of the event it handles is in the
\* stored follow set at that moment, whatever the run: an empty follow set, a set
\* that has just been replaced.
C21_StoredOnlyFromFollowedAccounts ==
    [][StoresRow => event'.did \in follows]_vars

\* a message is taken off the connection
MessageStep == consumer.pc = "connected" /\ stream' # stream

\* C22: a message that fails to decode, or whose handling raises, does not tear the
\* connection down: the consumer stays connected, nothing is stored for the message,
\* the resume cursor stays where it was, and the message that comes next is handled
\* as usual (its rows are stored and its cursor is about to be persisted).
C22_MalformedMessageIsSkipped ==
    [][/\ (MessageStep /\ stream'.last # "handled")
          => /\ consumer'.pc = "connected"
             /\ ws' = "open"
             /\ UNCHANGED <<posts, feed_items, seq>>
             /\ service_state' = service_state
       /\ (MessageStep /\ stream.last \notin {"none", "handled"}
              /\ stream'.last = "handled")
          => /\ consumer'.pc = "persist"
             /\ seq' = seq + 1
             /\ \E r \in feed_items' : r.id = seq' /\ r.post_uri = PostUri(event'.did, event'.rkey)
             /\ \E p \in posts' : p.uri = PostUri(event'.did, event'.rkey)]_vars

----------------------------------------------------------------------------
(* Properties of the periodic jobs *)

\* C23: the two periodic jobs survive their own errors and each other's.  Once the
\* tasks run, whatever has failed before in either job, the retention job runs
\* another round, every call of the follow refresh ends, and the follow refresh job
\* begins another call: each job runs again and again.
C23_PeriodicJobsSurviveErrors ==
    /\ \A b \in {0, 1} :
          (proc = "running" /\ now >= DB_RETENTION_HOURS /\ cleanup.round = b)
              ~> (cleanup.round # b)
    /\ (proc = "running" /\ refresh.pc = "idle") ~> (refresh.pc = "resolve")
    /\ (proc = "running" /\ refresh.pc # "idle") ~> (refresh.pc = "idle")

\* C23 witness: a round of the retention job has run after a round that raised, and
\* a call of the periodic follow refresh has begun after a call that raised.
C23_Witness ==
    /\ proc = "running"
    /\ cleanup.failed /\ cleanup.past /\ ~cleanup.ended
    /\ refresh.pc = "resolve" /\ refresh.before = "raised"

----------------------------------------------------------------------------
(* Properties of the endpoint's limit and access control *)

\* C24: whatever integer the client passes as limit (zero and negative included),
\* the page holds at most limit items (none for a limit below 1), and never more
\* than FEED_PAGE_SIZE.
C24_PageNeverExceedsLimit ==
    [][RequestStep
       => /\ Len(response'.feed) <= (IF request'.limit < 0 THEN 0 ELSE request'.limit)
          /\ Len(response'.feed) <= FEED_PAGE_SIZE]_vars

\* the requester a request identifies: the iss of its bearer token, if it decodes
\* to one
HasIdentity(auth) ==
    ExtractRequesterDid(auth) # NULL /\ ExtractRequesterDid(auth) # <<>>

\* C25: with a non-empty ALLOWED_DIDS, a request whose requester is not in it, or
\* that carries no decodable requester identity, gets an empty feed; with an empty
\* ALLOWED_DIDS every request is served.
C25_OnlyAllowedRequestersAreServed ==
    [][RequestStep
       => /\ (/\ request'.allowed # {}
               /\ \/ ~HasIdentity(request'.auth)
                  \/ ExtractRequesterDid(request'.auth) \notin request'.allowed)
             => response'.feed = <<>>
          /\ request'.allowed = {}
             => response' = SkeletonResponse(feed_items, request'.limit,
                                             request'.cursor)]_vars

----------------------------------------------------------------------------
(* Properties of the rows' lifetime *)

\* C26: the filtered flag of a FeedItem is decided at insertion and never changes,
\* and surrogate ids are never reused.  In every step (a create or delete event, a
\* retention sweep, a step of a follow refresh, a clock tick) a row that is still
\* stored is the row it was, flag included; a new row gets an id larger than every
\* id assigned before; and no two stored rows share an id.
C26_FilteredFlagIsImmutable ==
    [][/\ \A r \in feed_items, q \in feed_items' :
             r.id = q.id => q = r /\ q.is_filtered = r.is_filtered
       /\ \A q \in feed_items' \ feed_items : q.id > seq
       /\ \A q \in feed_items' : q.id <= seq'
       /\ seq' >= seq
       /\ \A r, q \in feed_items' : r.id = q.id => r = q]_vars

\* C26 witness: 49 hours after A reposted its own post, after a follow refresh, the
\* repost's row is still stored filtered, although the filter would now decide
\* otherwise; the post's own row is stored non-filtered.
C26_Witness ==
    /\ now = DB_RETENTION_HOURS + 1
    /\ follows # {}
    /\ refresh.pc = "idle" /\ refresh.outcome = "returned"
    /\ \E r, q \in feed_items :
          /\ r.id = 2 /\ r.is_filtered /\ r.reposter_did = A
          /\ ~ShouldFilterRepost(r.reposter_did, r.post_uri)
          /\ q.id = 1 /\ ~q.is_filtered /\ q.post_uri = r.post_uri

----------------------------------------------------------------------------
(* Properties of a pagination walk over a store that is not modified *)

\* C27: a walk over a store that is not modified terminates.  A client that begins
\* with no cursor and follows the continuation cursors with a page size of at least
\* 1 gets, after finitely many requests, a response with an empty feed and no
\* cursor, whatever rows the router has stored (several rows of one uri included).
C27_WalkTerminates ==
    (walk.active /\ walk.limit >= 1)
        ~> (walk.active /\ walk.cursor = NULL /\ response.feed = <<>>
              /\ response.cursor = NULL)

====
